---- MODULE Spec2Model ----
(***************************************************************************)
(* Model of the proxy-service request pipeline (package proxyserver):      *)
(* ProxyServer.ServeHTTP and the helpers it calls, with the shared         *)
(* priorRequest field, and of validateRequestBody as a pure function.      *)
(* Texts (bodies, phrases) are sequences of one-character strings.         *)
(***************************************************************************)
EXTENDS Integers, Sequences, FiniteSets, TLC

VARIABLES
    cfg,           \* the ProxyServer's configuration fields (set by NewProxyServer)
    priorRequest,  \* ProxyServer.priorRequest, shared by every handler
    pc,            \* per handler goroutine: position inside ServeHTTP
    req,           \* per handler: r, the *http.Request (rewritten in place)
    inbound,       \* history: per handler, the request as it was received
    cb,            \* per handler: local cb, the captured body bytes
    pr,            \* per handler: local pr, the copy read from s.priorRequest
    cr,            \* per handler: local cr, the snapshot of the current request
    resp,          \* per handler: what the http.ResponseWriter has sent
    out,           \* per handler: the requests handed to client.Do, in order
    slept,         \* per handler: durations passed to time.Sleep, in order
    stages,        \* per handler: the stages of ServeHTTP executed so far
    prevChecked,   \* history: per handler, the snapshot compared just before its own
    lastChecked,   \* history: snapshot of the latest request that did the comparison
    nreq,          \* number of requests received so far
    beside,        \* history: per handler, the handlers asleep in the delay ever
                   \* since its request arrived
    reqID,         \* per handler: local reqID, the identifier uuid.NewString returned
    uuids,         \* number of identifiers uuid.NewString has generated so far
    upstream,      \* per handler: what client.Do returned (a response or an error)
    vBody,         \* TestBodyValidation: the body handed to validateRequestBody
    vErr,          \* TestBodyValidation: the error it returned
    tIn,           \* a helper called on its own: its arguments
    tOut           \* a helper called on its own: what it returned or wrote

backendVars == <<reqID, uuids, upstream>>

testVars == <<vBody, vErr, tIn, tOut>>

vars == <<cfg, priorRequest, pc, req, inbound, cb, pr, cr, resp, out, slept, stages,
          prevChecked, lastChecked, nreq, beside, backendVars, testVars>>

serverVars == <<priorRequest, pc, req, inbound, cb, pr, cr, resp, out, slept, stages,
                prevChecked, lastChecked, nreq, beside, backendVars>>

-----------------------------------------------------------------------------
(* Bounds of the model *)

MaxBodyLen == 4        \* longest body handed to validateRequestBody
MaxPhraseLen == 1      \* longest forbidden phrase tried in the unit harness
MaxRequests == 3       \* requests received in one run of the server
MaxPathLen == 3        \* longest path of a target URL or of a request
MaxHeaders == 2        \* most headers present in a request handed to prepareRequest
MaxMsgLen == 3         \* longest message handed to writeError on its own
MaxServedLen == 2      \* longest body of the requests served with no phrase configured

Handlers == {"h1", "h2"}

\* characters of bodies and phrases: a letter in both cases, another letter,
\* and the two delimiters of the exact forms
Chars == {"a", "A", "s", " ", "\""}

RECURSIVE SeqsUpTo(_, _)
SeqsUpTo(S, n) ==
    IF n = 0 THEN {<<>>}
    ELSE LET shorter == SeqsUpTo(S, n - 1)
         IN  shorter \cup {Append(s, c) : s \in {t \in shorter : Len(t) = n - 1}, c \in S}

-----------------------------------------------------------------------------
(* strings *)

\* strings.ToLower on one character
LowerChar(c) == IF c = "A" THEN "a" ELSE c

\* strings.ToLower
ToLower(s) == [i \in 1..Len(s) |-> LowerChar(s[i])]

\* Contains looking at the start of the body only
ContainsAtStart(b, c) == Len(c) <= Len(b) /\ SubSeq(b, 1, Len(c)) = c

\* strings.Contains(b, c)
Contains(b, c) ==
    \E i \in 0..(Len(b) - Len(c)) : SubSeq(b, i + 1, i + Len(c)) = c

\* strings.HasPrefix(b, c)
HasPrefix(b, c) == Len(c) <= Len(b) /\ SubSeq(b, 1, Len(c)) = c

\* strings.HasSuffix(b, c)
HasSuffix(b, c) == Len(c) <= Len(b) /\ SubSeq(b, Len(b) - Len(c) + 1, Len(b)) = c

\* the decimal digits
Digits == <<"0", "1", "2", "3", "4", "5", "6", "7", "8", "9">>

RECURSIVE Itoa(_)
\* strconv.Itoa of a number that is not negative
Itoa(n) ==
    IF n < 10 THEN <<Digits[n + 1]>>
    ELSE Itoa(n \div 10) \o <<Digits[(n % 10) + 1]>>

\* A text is a sequence of pieces: single characters, and the literal texts of
\* the source kept whole. len() of a piece, in bytes:
PieceLen(u) ==
    CASE u = "rejected because '" -> 18
      [] u = "' found within request body" -> 27
      [] u = "' method not allowed, this proxy server only supports 'POST, PUT, PATCH' requests" -> 81
      [] u = "Content-Type header must be 'application/json'" -> 46
      [] u = "invalid request body" -> 20
      [] u = "unable to parse target url" -> 26
      [] u = "bad gateway" -> 11
      [] u = "{\"code\":\"" -> 9
      [] u = "\",\"msg\":\"" -> 9
      [] u = "\"}" -> 2
      [] u = "POST" -> 4
      [] u = "PUT" -> 3
      [] u = "PATCH" -> 5
      [] u = "GET" -> 3
      [] u = "connection refused" -> 18
      [] OTHER -> 1

RECURSIVE len(_)
\* len() of a text, in bytes
len(s) == IF s = <<>> THEN 0 ELSE PieceLen(Head(s)) + len(Tail(s))

\* encoding/json, one character of a string value: the quote and the backslash
\* get a backslash, < becomes \u003c; the literal texts of the source hold none
\* of them
jsonEscape(u) ==
    CASE u = "\"" -> <<"\\", "\"">>
      [] u = "\\" -> <<"\\", "\\">>
      [] u = "<" -> <<"\\", "u", "0", "0", "3", "c">>
      [] OTHER -> <<u>>

RECURSIVE jsonString(_)
\* encoding/json, the inside of a string value
jsonString(s) == IF s = <<>> THEN <<>> ELSE jsonEscape(Head(s)) \o jsonString(Tail(s))

\* json.Marshal(&proxyErrorResponse{Code: code, Msg: msg})
jsonMarshal(code, msg) ==
    <<"{\"code\":\"">> \o jsonString(code) \o <<"\",\"msg\":\"">> \o jsonString(msg) \o <<"\"}">>

-----------------------------------------------------------------------------
(* errors, as returned by errors.New: a fixed text with at most one argument, *)
(* which stands where the text has %s. The backquote of the Go texts is      *)
(* written ' here.                                                           *)

NoError == [isErr |-> FALSE, text |-> "", arg |-> <<>>]
NotRun == [isErr |-> FALSE, text |-> "not run", arg |-> <<>>]
NotCalled == [called |-> FALSE]
NewError(text, arg) == [isErr |-> TRUE, text |-> text, arg |-> arg]

\* err.Error(): the text, for the filter's error the concatenation of line 329
ErrorString(e) ==
    IF e.text = "rejected because '%s' found within request body"
    THEN <<"rejected because '">> \o e.arg \o <<"' found within request body">>
    ELSE <<e.text>>

-----------------------------------------------------------------------------
(* validateRequestBody *)

\* InvalidForms with the form c3 left out
InvalidFormsNoC3(v, exact) ==
    IF exact
    THEN { <<" ">> \o v \o <<" ">>,
           <<"\"">> \o v \o <<"\"">>,
           <<"\"">> \o v \o <<" ">> }
    ELSE { v }

\* the texts looked for in the body: the phrase itself, or in exact mode its
\* four delimited forms c1..c4
InvalidForms(v, exact) ==
    IF exact
    THEN { <<" ">> \o v \o <<" ">>,
           <<"\"">> \o v \o <<"\"">>,
           <<" ">> \o v \o <<"\"">>,
           <<"\"">> \o v \o <<" ">> }
    ELSE { v }

\* the phrase and the body as compared: lower-cased when rejectInsensitive
ComparedText(insensitive, s) == IF insensitive THEN ToLower(s) ELSE s

\* validateRequestBody lower-casing the body but not the phrase
validateRequestBodyBodyOnly(c, b) ==
    LET v  == c.rejectWith
        bb == ComparedText(c.rejectInsensitive, b)
    IN  IF \E f \in InvalidForms(v, c.rejectExact) : Contains(bb, f)
        THEN NewError("rejected because '%s' found within request body", v)
        ELSE NoError

validateRequestBody(c, b) ==
    LET v  == ComparedText(c.rejectInsensitive, c.rejectWith)
        bb == ComparedText(c.rejectInsensitive, b)
    IN  IF \E f \in InvalidForms(v, c.rejectExact) : Contains(bb, f)
        THEN NewError("rejected because '%s' found within request body", v)
        ELSE NoError

-----------------------------------------------------------------------------
(* requests, headers and snapshots *)

\* a Go slice: nil, or a (possibly empty) sequence; cmp.Equal tells them apart
NilSlice == [nil |-> TRUE, v |-> <<>>]
Slice(s) == [nil |-> FALSE, v |-> s]

\* header names (canonical MIME form, as net/http stores them) the code names
HeaderNames ==
    {"Host", "Accept", "User-Agent", "Connection", "Content-Type", "Content-Length",
     "Accept-Encoding", "AcceptEncoding", "Authorization", "Te", "Trailer", "Upgrade",
     "Keep-Alive", "Transfer-Encoding", "Proxy-Connection", "Proxy-Authenticate",
     "Proxy-Authorization"}

\* an http.Header: every name maps to its value list, nil when absent
EmptyHeader == [n \in HeaderNames |-> NilSlice]

\* http.Header.Get: the first value of the name, "" when there is none
HeaderGet(hd, name) ==
    IF hd[name].nil \/ Len(hd[name].v) = 0 THEN "" ELSE hd[name].v[1]

\* http.Header.Del
HeaderDel(hd, name) == [hd EXCEPT ![name] = NilSlice]

\* the zero headerCopy
EmptyHeaderCopy ==
    [Host |-> NilSlice, Accept |-> NilSlice, UserAgent |-> NilSlice,
     Connection |-> NilSlice, ContentType |-> NilSlice, ContentLength |-> NilSlice,
     AcceptEncoding |-> NilSlice]

\* copyHeader: the switch over the header's keys
copyHeader(hd) ==
    [Host           |-> hd["Host"],
     Accept         |-> hd["Accept"],
     UserAgent      |-> hd["User-Agent"],
     Connection     |-> hd["Connection"],
     ContentType    |-> hd["Content-Type"],
     ContentLength  |-> hd["Content-Length"],
     AcceptEncoding |-> hd["AcceptEncoding"]]

\* a prior request that is the snapshot of a POST of the body "s"
SeededRequestCopy ==
    [Method |-> "POST", TargetURL |-> <<"http://", "b", "/", "a", "/">>,
     TargetURI |-> <<"/", "d", "?", "k">>,
     Header |-> [EmptyHeaderCopy EXCEPT !.ContentType = Slice(<<"application/json">>)],
     Body |-> Slice(<<"\"", "s", "\"">>)]

\* RequestCopy{}, the prior request the server is constructed with
EmptyRequestCopy ==
    [Method |-> "", TargetURL |-> <<>>, TargetURI |-> <<>>,
     Header |-> EmptyHeaderCopy, Body |-> NilSlice]

\* no request has done the comparison yet
NoneChecked == [some |-> FALSE, snap |-> EmptyRequestCopy]

\* cmp.Equal leaving the Body out of the comparison
cmpEqualNoBody(a, b) ==
    /\ a.Method = b.Method
    /\ a.TargetURL = b.TargetURL
    /\ a.TargetURI = b.TargetURI
    /\ a.Header = b.Header

\* cmp.Equal on two RequestCopy values: field by field, nil slice # empty slice
cmpEqual(a, b) ==
    /\ a.Method = b.Method
    /\ a.TargetURL = b.TargetURL
    /\ a.TargetURI = b.TargetURI
    /\ a.Header = b.Header
    /\ a.Body = b.Body

\* URLs and paths are texts too: the pieces of a URL are the scheme with its
\* separator, the host, and then the characters of the path and the query; an
\* escape such as %2F is one piece

\* a url.URL, the fields the code reads and writes
EmptyURL == [Scheme |-> "", Host |-> "", Path |-> <<>>, RawPath |-> <<>>, RawQuery |-> <<>>]

\* net/url unescape of a path: %2F is the slash, %20 the space
unescape(p) ==
    [i \in 1..Len(p) |-> CASE p[i] = "%2F" -> "/" [] p[i] = "%20" -> " " [] OTHER -> p[i]]

\* net/url escape of a path, the default encoding: the space becomes %20, the
\* slash stays
escape(p) == [i \in 1..Len(p) |-> IF p[i] = " " THEN "%20" ELSE p[i]]

\* url.URL.setPath: RawPath is kept only when it is not the default encoding
setPath(u, p) ==
    [u EXCEPT !.Path = unescape(p),
              !.RawPath = IF escape(unescape(p)) = p THEN <<>> ELSE p]

\* url.URL.EscapedPath
EscapedPath(u) ==
    IF u.RawPath # <<>> /\ unescape(u.RawPath) = u.Path THEN u.RawPath ELSE escape(u.Path)

\* strings.Index for one character: 0 when it does not occur
IndexOf(s, c) ==
    IF \E i \in 1..Len(s) : s[i] = c
    THEN CHOOSE i \in 1..Len(s) : s[i] = c /\ \A j \in 1..(i - 1) : s[j] # c
    ELSE 0

\* url.Parse fails on an invalid escape
urlParseFails(t) == \E i \in 1..Len(t) : t[i] = "%zz"

\* url.Parse (and the server's parse of the request line): scheme and host when
\* the text starts with a scheme, the path up to the first ?, the query after it
urlParse(t) ==
    LET abs   == Len(t) >= 2 /\ t[1] = "http://"
        rest  == IF abs THEN SubSeq(t, 3, Len(t)) ELSE t
        q     == IndexOf(rest, "?")
        path  == IF q = 0 THEN rest ELSE SubSeq(rest, 1, q - 1)
        query == IF q = 0 THEN <<>> ELSE SubSeq(rest, q + 1, Len(rest))
    IN  setPath([EmptyURL EXCEPT !.Scheme = IF abs THEN "http" ELSE "",
                                 !.Host = IF abs THEN t[2] ELSE "",
                                 !.RawQuery = query], path)

\* request bodies: http.NoBody, bytes, or a reader that fails
NoBody == [kind |-> "nobody", bytes |-> <<>>]
BytesBody(b) == [kind |-> "bytes", bytes |-> b]
FailingBody == [kind |-> "err", bytes |-> <<>>]

\* io.ReadAll of a reader that does not fail: its bytes, never nil
ReadAll(b) == b.bytes

\* copyBody handing back as r1 the reader it has read to its end
copyBodyDrained(b) ==
    IF b.kind = "nobody" THEN [r1 |-> NoBody, r2 |-> NoBody, err |-> FALSE]
    ELSE IF b.kind = "err" THEN [r1 |-> NoBody, r2 |-> NoBody, err |-> TRUE]
    ELSE [r1 |-> BytesBody(<<>>), r2 |-> BytesBody(b.bytes), err |-> FALSE]

\* copyBody: http.NoBody twice for a request without body, else the body is
\* read to its end and two readers over the bytes read are returned
copyBody(b) ==
    IF b.kind = "nobody" THEN [r1 |-> NoBody, r2 |-> NoBody, err |-> FALSE]
    ELSE IF b.kind = "err" THEN [r1 |-> NoBody, r2 |-> NoBody, err |-> TRUE]
    ELSE [r1 |-> BytesBody(b.bytes), r2 |-> BytesBody(b.bytes), err |-> FALSE]

NoRequest ==
    [Method |-> "", RequestURI |-> <<>>, URL |-> EmptyURL, Host |-> "",
     Header |-> EmptyHeader, Body |-> NoBody]

\* the *http.Request the server builds from a request line and its headers
NewRequest(m, uri, hd, b) ==
    [Method |-> m, RequestURI |-> uri, URL |-> urlParse(uri), Host |-> "proxy",
     Header |-> hd, Body |-> b]

JSON == "application/json"

\* the response headers the code sets, nil when not set
EmptyResponseHeader ==
    [ContentType |-> NilSlice, ContentLength |-> NilSlice, XProxyRequestID |-> NilSlice]

\* what the ResponseWriter has sent: nothing yet, an error of writeError, or
\* the relayed upstream response; writes counts the calls of w.WriteHeader
NoResponse ==
    [kind |-> "none", status |-> 0, header |-> EmptyResponseHeader, body |-> <<>>,
     writes |-> 0]

\* w.WriteHeader takes effect once: net/http drops a later status line and the
\* headers set after it, and a later w.Write adds to the body unless a
\* Content-Length was declared
Respond(old, new) ==
    IF old.kind = "none" THEN new
    ELSE IF old.header.ContentLength.nil
         THEN [old EXCEPT !.body = @ \o new.body, !.writes = @ + 1]
    ELSE [old EXCEPT !.writes = @ + 1]

\* writeError leaving Content-Length at the length of the message
writeErrorLenOfMsg(old, code, msg) ==
    LET buf == jsonMarshal(Itoa(code), msg)
    IN  Respond(old, [kind |-> "error", status |-> code,
                      header |-> [ContentType |-> Slice(<<JSON>>),
                                  ContentLength |-> Slice(<<Itoa(len(msg))>>),
                                  XProxyRequestID |-> NilSlice],
                      body |-> buf, writes |-> 1])

\* writeError; buf is marshalled once and then used for the length and the body
writeError(old, code, msg) ==
    CHOOSE r \in { Respond(old, [kind |-> "error", status |-> code,
                                 header |-> [ContentType |-> Slice(<<JSON>>),
                                             ContentLength |-> Slice(<<Itoa(len(buf))>>),
                                             XProxyRequestID |-> NilSlice],
                                 body |-> buf, writes |-> 1]) :
                   buf \in {jsonMarshal(Itoa(code), msg)} } : TRUE

-----------------------------------------------------------------------------
(* inputs *)

QuotedS == <<"\"", "s", "\"">>      \* the body "s"
QuotedA == <<"\"", "A", "\"">>      \* the body "A"

Methods == {"POST", "PUT", "PATCH", "GET"}
ContentTypes == {NilSlice, Slice(<<JSON>>), Slice(<<"text/html">>)}
RequestBodies == {BytesBody(QuotedS), BytesBody(QuotedA), FailingBody, NoBody}
RequestURIs == {<<"/", "d", "?", "k">>}

Requests ==
    { NewRequest(m, u, [EmptyHeader EXCEPT !["Content-Type"] = ct], b) :
      m \in Methods, u \in RequestURIs, ct \in ContentTypes, b \in RequestBodies }

\* requests of the runs with concurrent handlers: two that differ in the
\* method and in the body
ConcRequests ==
    { r \in Requests : /\ r.Header["Content-Type"] = Slice(<<JSON>>)
                       /\ \/ r.Method = "POST" /\ r.Body = BytesBody(QuotedS)
                          \/ r.Method = "GET" /\ r.Body = BytesBody(QuotedA) }

GoodURL == <<"http://", "b", "/", "a", "/">>
BadURL == <<"http://", "b", "/", "%zz">>       \* url.Parse: invalid URL escape
TargetURLs == {GoodURL, BadURL}
RequestDelays == {0, 2}

\* rejectExact and rejectInsensitive are read only when rejectWith is not empty
Configs ==
    { c \in [targetURL : TargetURLs, requestDelay : RequestDelays,
             bodyMethodsOnly : BOOLEAN, rejectWith : {<<>>, <<"a">>},
             rejectExact : BOOLEAN, rejectInsensitive : BOOLEAN] :
        c.rejectWith = <<>> => (c.rejectExact /\ c.rejectInsensitive) }

\* configurations of the runs with concurrent handlers
ConcConfigs ==
    { c \in Configs : /\ c.targetURL = GoodURL
                      /\ c.requestDelay = 2
                      /\ ~c.bodyMethodsOnly
                      /\ c.rejectExact
                      /\ c.rejectInsensitive }

\* configurations of the unit harness: any phrase, either mode, either case policy
FilterConfigs ==
    { c \in [targetURL : {GoodURL}, requestDelay : {2}, bodyMethodsOnly : {FALSE},
             rejectWith : SeqsUpTo(Chars, MaxPhraseLen), rejectExact : BOOLEAN,
             rejectInsensitive : BOOLEAN] : TRUE }

\* configurations with the filter's phrase left empty: every exact/contains and
\* case setting
NoPhraseConfigs ==
    { c \in [targetURL : {GoodURL}, requestDelay : {2}, bodyMethodsOnly : {FALSE},
             rejectWith : {<<>>}, rejectExact : BOOLEAN, rejectInsensitive : BOOLEAN] : TRUE }

\* requests that reach the content filter, with every short body over the
\* delimiters and a letter, and with no body at all
NoPhraseRequests ==
    { NewRequest("POST", u, [EmptyHeader EXCEPT !["Content-Type"] = Slice(<<JSON>>)], b) :
      u \in RequestURIs,
      b \in {NoBody} \cup { BytesBody(t) : t \in SeqsUpTo({"a", " ", "\""}, MaxServedLen) } }

\* what client.Do returns: nothing yet, the upstream's response, or an error
NoResult == [kind |-> "none", status |-> 0, body |-> <<>>, err |-> <<>>, copied |-> 0]

TransportErrors == {<<"connection refused">>}

\* a response of the upstream; copied is the number of body bytes io.Copy gets
\* to the client: all of them, or fewer when the read of resp.Body or the
\* write to w fails on the way
ClientResponses ==
    { [kind |-> "resp", status |-> 201, body |-> <<>>, err |-> <<>>, copied |-> 0] }
    \cup { [kind |-> "resp", status |-> 405, body |-> QuotedS, err |-> <<>>, copied |-> n] :
           n \in {1, Len(QuotedS)} }

ClientErrors ==
    { [kind |-> "err", status |-> 0, body |-> <<>>, err |-> e, copied |-> 0] :
      e \in TransportErrors }

-----------------------------------------------------------------------------
(* ServeHTTP, one action per stage *)

\* the allowedMethods loop without PATCH
MethodAllowedNoPatch(m) == m \in {"POST", "PUT"}

\* the allowedMethods loop
MethodAllowed(m) == m \in {"POST", "PUT", "PATCH"}

\* leave ServeHTTP (return) having written response r
Return(h, r) ==
    /\ resp' = [resp EXCEPT ![h] = r]
    /\ pc' = [pc EXCEPT ![h] = "done"]

Goto(h, stage) == pc' = [pc EXCEPT ![h] = stage]

Ran(h, stage) == stages' = [stages EXCEPT ![h] = Append(@, stage)]

\* a handler goroutine is given request r
Begin(h, r) ==
    /\ pc[h] = "idle"
    /\ nreq < MaxRequests
    /\ nreq' = nreq + 1
    /\ req' = [req EXCEPT ![h] = r]
    /\ inbound' = [inbound EXCEPT ![h] = r]
    /\ pc' = [pc EXCEPT ![h] = "admission"]
    /\ beside' = [beside EXCEPT ![h] = {g \in Handlers : pc[g] = "sleep"}]
    /\ UNCHANGED <<cfg, priorRequest, cb, pr, cr, resp, out, slept, stages,
                   prevChecked, lastChecked, backendVars, testVars>>

\* ServeHTTP has returned: the goroutine's request, locals and writer are gone
Release(h) ==
    /\ pc[h] = "done"
    /\ pc' = [pc EXCEPT ![h] = "idle"]
    /\ req' = [req EXCEPT ![h] = NoRequest]
    /\ inbound' = [inbound EXCEPT ![h] = NoRequest]
    /\ cb' = [cb EXCEPT ![h] = <<>>]
    /\ pr' = [pr EXCEPT ![h] = EmptyRequestCopy]
    /\ cr' = [cr EXCEPT ![h] = EmptyRequestCopy]
    /\ resp' = [resp EXCEPT ![h] = NoResponse]
    /\ out' = [out EXCEPT ![h] = <<>>]
    /\ slept' = [slept EXCEPT ![h] = <<>>]
    /\ stages' = [stages EXCEPT ![h] = <<>>]
    /\ prevChecked' = [prevChecked EXCEPT ![h] = NoneChecked]
    /\ reqID' = [reqID EXCEPT ![h] = 0]
    /\ upstream' = [upstream EXCEPT ![h] = NoResult]
    /\ beside' = [beside EXCEPT ![h] = {}]
    /\ UNCHANGED <<cfg, priorRequest, lastChecked, nreq, uuids, testVars>>

\* net/http starts a goroutine per connection: requests are handled concurrently
Arrive(h) == \E r \in ConcRequests : Begin(h, r)

\* the client sends the next request only after the previous response
ArriveSeq(h) ==
    /\ \A g \in Handlers : pc[g] = "idle"
    /\ \E r \in Requests : Begin(h, r)

\* one request after another, of those that reach the content filter
ArriveNoPhrase(h) ==
    /\ \A g \in Handlers : pc[g] = "idle"
    /\ \E r \in NoPhraseRequests : Begin(h, r)

\* validate request method
Admission(h) ==
    /\ pc[h] = "admission"
    /\ Ran(h, "admission")
    /\ IF cfg.bodyMethodsOnly /\ ~MethodAllowed(req[h].Method)
       THEN Return(h, writeError(resp[h], 405,
                <<"'", req[h].Method,
                  "' method not allowed, this proxy server only supports 'POST, PUT, PATCH' requests">>))
       ELSE Goto(h, "ctype") /\ UNCHANGED resp
    /\ UNCHANGED <<cfg, priorRequest, req, inbound, cb, pr, cr, out, slept, prevChecked,
                   lastChecked, nreq, beside, backendVars, testVars>>

\* the content type gate letting an absent header through
ContentTypeOKOrAbsent(hd) == HeaderGet(hd, "Content-Type") \in {JSON, ""}

\* the content type gate's test
ContentTypeOK(hd) == HeaderGet(hd, "Content-Type") = JSON

\* the content type gate forgetting the stored snapshot when it rejects
ContentTypeForgets(h) ==
    /\ pc[h] = "ctype"
    /\ Ran(h, "ctype")
    /\ IF ~ContentTypeOK(req[h].Header)
       THEN /\ Return(h, writeError(resp[h], 415,
                  <<"Content-Type header must be 'application/json'">>))
            /\ priorRequest' = EmptyRequestCopy
       ELSE Goto(h, "body") /\ UNCHANGED <<resp, priorRequest>>
    /\ UNCHANGED <<cfg, req, inbound, cb, pr, cr, out, slept, prevChecked,
                   lastChecked, nreq, beside, backendVars, testVars>>

\* validate content type
ContentType(h) ==
    /\ pc[h] = "ctype"
    /\ Ran(h, "ctype")
    /\ IF ~ContentTypeOK(req[h].Header)
       THEN Return(h, writeError(resp[h], 415,
                <<"Content-Type header must be 'application/json'">>))
       ELSE Goto(h, "body") /\ UNCHANGED resp
    /\ UNCHANGED <<cfg, priorRequest, req, inbound, cb, pr, cr, out, slept, prevChecked,
                   lastChecked, nreq, beside, backendVars, testVars>>

\* BodyCapture handing the request to the duplicate check, past the filter
BodyCaptureNoFilter(h) ==
    /\ pc[h] = "body"
    /\ Ran(h, "body")
    /\ LET c == copyBody(req[h].Body)
       IN  IF c.err
           THEN /\ Return(h, writeError(resp[h], 400, <<"invalid request body">>))
                /\ UNCHANGED <<cb, req>>
           ELSE /\ req' = [req EXCEPT ![h].Body = c.r1]
                /\ cb' = [cb EXCEPT ![h] = ReadAll(c.r2)]
                /\ Goto(h, "readA")
                /\ UNCHANGED resp
    /\ UNCHANGED <<cfg, priorRequest, inbound, pr, cr, out, slept, prevChecked,
                   lastChecked, nreq, beside, backendVars, testVars>>

\* copyBody, r.Body = r1 and cb = io.ReadAll(r2): 400 when the body cannot be
\* read (reading r2, a buffer, does not fail)
BodyCapture(h) ==
    /\ pc[h] = "body"
    /\ Ran(h, "body")
    /\ LET c == copyBody(req[h].Body)
       IN  IF c.err
           THEN /\ Return(h, writeError(resp[h], 400, <<"invalid request body">>))
                /\ UNCHANGED <<cb, req>>
           ELSE /\ req' = [req EXCEPT ![h].Body = c.r1]
                /\ cb' = [cb EXCEPT ![h] = ReadAll(c.r2)]
                /\ Goto(h, "filter")
                /\ UNCHANGED resp
    /\ UNCHANGED <<cfg, priorRequest, inbound, pr, cr, out, slept, prevChecked,
                   lastChecked, nreq, beside, backendVars, testVars>>

\* ContentFilter without the return after writeError
ContentFilterNoReturn(h) ==
    /\ pc[h] = "filter"
    /\ Ran(h, "filter")
    /\ LET err == IF cfg.rejectWith # <<>> THEN validateRequestBody(cfg, cb[h]) ELSE NoError
       IN  resp' = [resp EXCEPT ![h] = IF err.isErr
                                        THEN writeError(@, 401, ErrorString(err))
                                        ELSE @]
    /\ Goto(h, "readA")
    /\ UNCHANGED <<cfg, priorRequest, req, inbound, cb, pr, cr, out, slept, prevChecked,
                   lastChecked, nreq, beside, backendVars, testVars>>

\* ContentFilter calling validateRequestBody whatever the phrase
ContentFilterNoGuard(h) ==
    /\ pc[h] = "filter"
    /\ Ran(h, "filter")
    /\ LET err == validateRequestBody(cfg, cb[h])
       IN  IF err.isErr
           THEN Return(h, writeError(resp[h], 401, ErrorString(err)))
           ELSE Goto(h, "readA") /\ UNCHANGED resp
    /\ UNCHANGED <<cfg, priorRequest, req, inbound, cb, pr, cr, out, slept, prevChecked,
                   lastChecked, nreq, beside, backendVars, testVars>>

\* reject requests with the word/phrase of rejectWith
ContentFilter(h) ==
    /\ pc[h] = "filter"
    /\ Ran(h, "filter")
    /\ \E err \in {IF cfg.rejectWith # <<>> THEN validateRequestBody(cfg, cb[h]) ELSE NoError} :
          IF err.isErr
          THEN \E msg \in {ErrorString(err)} : Return(h, writeError(resp[h], 401, msg))
          ELSE Goto(h, "readA") /\ UNCHANGED resp
    /\ UNCHANGED <<cfg, priorRequest, req, inbound, cb, pr, cr, out, slept, prevChecked,
                   lastChecked, nreq, beside, backendVars, testVars>>

\* the RequestCopy built for the current request
Snapshot(c, r, body) ==
    [Method |-> r.Method, TargetURL |-> c.targetURL, TargetURI |-> r.RequestURI,
     Header |-> copyHeader(r.Header), Body |-> Slice(body)]

\* ReadPriorA waiting for a lock held from the read to the replacement, the
\* delay included
ReadPriorALocked(h) ==
    /\ pc[h] = "readA"
    /\ \A g \in Handlers \ {h} : pc[g] \notin {"readB", "compare", "sleep", "writeA", "writeB"}
    /\ Ran(h, "readA")
    /\ pr' = [pr EXCEPT ![h] = [@ EXCEPT !.Method = priorRequest.Method,
                                          !.TargetURL = priorRequest.TargetURL,
                                          !.TargetURI = priorRequest.TargetURI]]
    /\ Goto(h, "readB")
    /\ UNCHANGED <<cfg, priorRequest, req, inbound, cb, cr, resp, out, slept,
                   prevChecked, lastChecked, nreq, beside, backendVars, testVars>>

\* pr := s.priorRequest is a copy of a multi-word struct made without any lock:
\* it is not one memory operation. The first words copied ...
ReadPriorA(h) ==
    /\ pc[h] = "readA"
    /\ Ran(h, "readA")
    /\ pr' = [pr EXCEPT ![h] = [@ EXCEPT !.Method = priorRequest.Method,
                                          !.TargetURL = priorRequest.TargetURL,
                                          !.TargetURI = priorRequest.TargetURI]]
    /\ Goto(h, "readB")
    /\ UNCHANGED <<cfg, priorRequest, req, inbound, cb, cr, resp, out, slept,
                   prevChecked, lastChecked, nreq, beside, backendVars, testVars>>

\* ... and the remaining ones; then cr is built
ReadPriorB(h) ==
    /\ pc[h] = "readB"
    /\ Ran(h, "readB")
    /\ pr' = [pr EXCEPT ![h] = [@ EXCEPT !.Header = priorRequest.Header,
                                          !.Body = priorRequest.Body]]
    /\ cr' = [cr EXCEPT ![h] = Snapshot(cfg, req[h], cb[h])]
    /\ Goto(h, "compare")
    /\ UNCHANGED <<cfg, priorRequest, req, inbound, cb, resp, out, slept,
                   prevChecked, lastChecked, nreq, beside, backendVars, testVars>>

\* if cmp.Equal(pr, cr)
Compare(h) ==
    /\ pc[h] = "compare"
    /\ Ran(h, "compare")
    /\ IF cmpEqual(pr[h], cr[h]) THEN Goto(h, "sleep") ELSE Goto(h, "writeA")
    /\ prevChecked' = [prevChecked EXCEPT ![h] = lastChecked]
    /\ lastChecked' = [some |-> TRUE, snap |-> cr[h]]
    /\ UNCHANGED <<cfg, priorRequest, req, inbound, cb, pr, cr, resp, out, slept,
                   nreq, beside, backendVars, testVars>>

\* a time.Sleep that does not return
SleepStuck(h) ==
    /\ pc[h] = "sleep"
    /\ UNCHANGED vars

\* time.Sleep(d), d the configured number of seconds
Sleep(h) ==
    /\ pc[h] = "sleep"
    /\ Ran(h, "sleep")
    /\ slept' = [slept EXCEPT ![h] = Append(@, cfg.requestDelay)]
    /\ Goto(h, "writeA")
    /\ beside' = [g \in Handlers |-> beside[g] \ {h}]
    /\ UNCHANGED <<cfg, priorRequest, req, inbound, cb, pr, cr, resp, out,
                   prevChecked, lastChecked, nreq, backendVars, testVars>>

\* the first words s.priorRequest = cr stores
StoreA(old, new) ==
    [old EXCEPT !.Method = new.Method, !.TargetURL = new.TargetURL,
                !.TargetURI = new.TargetURI]

\* StoreB leaving the stored Body as it was
StoreBNoBody(old, new) == [old EXCEPT !.Header = new.Header]

\* the remaining words s.priorRequest = cr stores
StoreB(old, new) == [old EXCEPT !.Header = new.Header, !.Body = new.Body]

\* s.priorRequest = cr, like the read, is not one memory operation
WritePriorA(h) ==
    /\ pc[h] = "writeA"
    /\ Ran(h, "writeA")
    /\ priorRequest' = StoreA(priorRequest, cr[h])
    /\ Goto(h, "writeB")
    /\ UNCHANGED <<cfg, req, inbound, cb, pr, cr, resp, out, slept,
                   prevChecked, lastChecked, nreq, beside, backendVars, testVars>>

WritePriorB(h) ==
    /\ pc[h] = "writeB"
    /\ Ran(h, "writeB")
    /\ priorRequest' = StoreB(priorRequest, cr[h])
    /\ Goto(h, "prepare")
    /\ UNCHANGED <<cfg, req, inbound, cb, pr, cr, resp, out, slept,
                   prevChecked, lastChecked, nreq, beside, backendVars, testVars>>

\* the headers sanitizeHeader deletes
HopHeaders ==
    {"Te", "Trailer", "Upgrade", "Keep-Alive", "Connection", "Accept-Encoding",
     "Transfer-Encoding", "Proxy-Connection", "Proxy-Authenticate", "Proxy-Authorization"}

\* sanitizeHeader without the line that deletes Te
sanitizeHeaderKeepTe(hd) ==
    [n \in HeaderNames |-> IF n \in HopHeaders \ {"Te"} THEN NilSlice ELSE hd[n]]

sanitizeHeader(hd) == [n \in HeaderNames |-> IF n \in HopHeaders THEN NilSlice ELSE hd[n]]

\* the two paths put one after the other as they are
joinPlain(a, b) == a \o b

\* the inner function of lines 352-362, on two paths
singleJoiningSlash(a, b) ==
    LET aslash == HasSuffix(a, <<"/">>)
        bslash == HasPrefix(b, <<"/">>)
    IN  IF aslash /\ bslash THEN a \o Tail(b)
        ELSE IF ~aslash /\ ~bslash THEN a \o <<"/">> \o b
        ELSE a \o b

\* the function of lines 350-379 on the target URL a and the request URL b:
\* the joined Path and RawPath
joinURLPath(a, b) ==
    IF a.RawPath = <<>> /\ b.RawPath = <<>>
    THEN [Path |-> singleJoiningSlash(a.Path, b.Path), RawPath |-> <<>>]
    ELSE LET apath  == EscapedPath(a)
             bpath  == EscapedPath(b)
             aslash == HasSuffix(apath, <<"/">>)
             bslash == HasPrefix(bpath, <<"/">>)
         IN  IF aslash /\ bslash
             THEN [Path |-> a.Path \o Tail(b.Path), RawPath |-> apath \o Tail(bpath)]
             ELSE IF ~aslash /\ ~bslash
             THEN [Path |-> a.Path \o <<"/">> \o b.Path,
                   RawPath |-> apath \o <<"/">> \o bpath]
             ELSE [Path |-> a.Path \o b.Path, RawPath |-> apath \o bpath]

\* the query merge with the request's query first
joinQueryInboundFirst(targetQuery, rawQuery) ==
    IF targetQuery = <<>> \/ rawQuery = <<>>
    THEN targetQuery \o rawQuery
    ELSE rawQuery \o <<"&">> \o targetQuery

\* the query merge of lines 381-386
joinQuery(targetQuery, rawQuery) ==
    IF targetQuery = <<>> \/ rawQuery = <<>>
    THEN targetQuery \o rawQuery
    ELSE targetQuery \o <<"&">> \o rawQuery

\* prepareRequest: an error when the target URL does not parse, else r rewritten
prepareRequest(t, r) ==
    IF urlParseFails(t)
    THEN [err |-> NewError("unable to parse target url", <<>>), req |-> r]
    ELSE LET target == urlParse(t)
             joined == joinURLPath(target, r.URL)
         IN  [err |-> NoError,
              req |-> [r EXCEPT !.Host = "",
                                !.RequestURI = <<>>,
                                !.URL = [Scheme   |-> target.Scheme,
                                         Host     |-> target.Host,
                                         Path     |-> joined.Path,
                                         RawPath  |-> joined.RawPath,
                                         RawQuery |-> joinQuery(target.RawQuery,
                                                                r.URL.RawQuery)],
                                !.Header = sanitizeHeader(r.Header)]]

\* uuid.NewString returning one and the same identifier every time
uuidRepeated(n) == 1

\* uuid.NewString, a random (version 4) UUID: the n+1st identifier generated,
\* different from the n generated before
uuidNewString(n) == n + 1

\* prepareRequest, 500 when it fails; then the request id is generated
Prepare(h) ==
    /\ pc[h] = "prepare"
    /\ Ran(h, "prepare")
    /\ \E p \in {prepareRequest(cfg.targetURL, req[h])} :
          IF p.err.isErr
          THEN /\ \E msg \in {ErrorString(p.err)} : Return(h, writeError(resp[h], 500, msg))
               /\ UNCHANGED <<req, reqID, uuids>>
          ELSE /\ req' = [req EXCEPT ![h] = p.req]
               /\ reqID' = [reqID EXCEPT ![h] = uuidNewString(uuids)]
               /\ uuids' = uuids + 1
               /\ Goto(h, "forward")
               /\ UNCHANGED resp
    /\ UNCHANGED <<cfg, priorRequest, inbound, cb, pr, cr, out, slept,
                   prevChecked, lastChecked, nreq, beside, upstream, testVars>>

\* requestBackendService writing the transport error's own text
ForwardFailsOwnText(h) ==
    /\ pc[h] = "forward"
    /\ Ran(h, "forward")
    /\ out' = [out EXCEPT ![h] = Append(@, req[h])]
    /\ \E res \in ClientErrors :
          /\ upstream' = [upstream EXCEPT ![h] = res]
          /\ Return(h, writeError(resp[h], 502, res.err))
    /\ UNCHANGED <<cfg, priorRequest, req, inbound, cb, pr, cr, slept,
                   prevChecked, lastChecked, nreq, beside, reqID, uuids, testVars>>

\* requestBackendService dispatching again after a transport failure
ForwardFailsRetry(h) ==
    /\ pc[h] = "forward"
    /\ Ran(h, "forward")
    /\ Len(out[h]) < 2
    /\ out' = [out EXCEPT ![h] = Append(@, req[h])]
    /\ \E res \in ClientErrors : upstream' = [upstream EXCEPT ![h] = res]
    /\ UNCHANGED <<cfg, priorRequest, pc, req, resp, inbound, cb, pr, cr, slept,
                   prevChecked, lastChecked, nreq, beside, reqID, uuids, testVars>>

\* requestBackendService, client.Do fails: 502 and the fixed text
ForwardFails(h) ==
    /\ pc[h] = "forward"
    /\ Ran(h, "forward")
    /\ out' = [out EXCEPT ![h] = Append(@, req[h])]
    /\ \E res \in ClientErrors : upstream' = [upstream EXCEPT ![h] = res]
    /\ \E msg \in {ErrorString(NewError("bad gateway", <<>>))} :
          Return(h, writeError(resp[h], 502, msg))
    /\ UNCHANGED <<cfg, priorRequest, req, inbound, cb, pr, cr, slept,
                   prevChecked, lastChecked, nreq, beside, reqID, uuids, testVars>>

\* relay answering 200 whatever the upstream's status
relayOK(old, res, id) ==
    Respond(old, [kind |-> "relay", status |-> 200,
                  header |-> [ContentType |-> Slice(<<JSON>>),
                              ContentLength |-> NilSlice,
                              XProxyRequestID |-> Slice(<<id>>)],
                  body |-> SubSeq(res.body, 1, res.copied), writes |-> 1])

\* the response requestBackendService writes for the upstream response res:
\* the request id, the content type, the upstream's status and as much of the
\* body as io.Copy copies
relay(old, res, id) ==
    Respond(old, [kind |-> "relay", status |-> res.status,
                  header |-> [ContentType |-> Slice(<<JSON>>),
                              ContentLength |-> NilSlice,
                              XProxyRequestID |-> Slice(<<id>>)],
                  body |-> SubSeq(res.body, 1, res.copied), writes |-> 1])

\* ForwardResponds handing a failure of io.Copy to writeError as a 502
ForwardRespondsCopyError(h) ==
    /\ pc[h] = "forward"
    /\ Ran(h, "forward")
    /\ out' = [out EXCEPT ![h] = Append(@, req[h])]
    /\ \E res \in ClientResponses :
          /\ upstream' = [upstream EXCEPT ![h] = res]
          /\ Return(h, IF res.copied < Len(res.body)
                       THEN writeError(relay(resp[h], res, reqID[h]), 502, <<"bad gateway">>)
                       ELSE relay(resp[h], res, reqID[h]))
    /\ UNCHANGED <<cfg, priorRequest, req, inbound, cb, pr, cr, slept,
                   prevChecked, lastChecked, nreq, beside, reqID, uuids, testVars>>

\* requestBackendService, client.Do returns the upstream's response: relayed;
\* the error of io.Copy is dropped (return 418, nil)
ForwardResponds(h) ==
    /\ pc[h] = "forward"
    /\ Ran(h, "forward")
    /\ out' = [out EXCEPT ![h] = Append(@, req[h])]
    /\ \E res \in ClientResponses :
          /\ upstream' = [upstream EXCEPT ![h] = res]
          /\ Return(h, relay(resp[h], res, reqID[h]))
    /\ UNCHANGED <<cfg, priorRequest, req, inbound, cb, pr, cr, slept,
                   prevChecked, lastChecked, nreq, beside, reqID, uuids, testVars>>

-----------------------------------------------------------------------------
(* TestBodyValidation: validateRequestBody called on a body *)

Validate ==
    /\ vErr = NotRun
    /\ \E b \in SeqsUpTo(Chars, MaxBodyLen) :
          /\ vBody' = b
          /\ vErr' = validateRequestBody(cfg, b)
    /\ UNCHANGED <<cfg, serverVars, tIn, tOut>>

-----------------------------------------------------------------------------
(* prepareRequest called on a request, and writeError on a code and a message *)

PathChars == {"/", "d", "%2F", "%20"}

\* paths as they occur in URLs: empty, or starting with a slash
Paths == {<<>>} \cup { <<"/">> \o p : p \in SeqsUpTo(PathChars, MaxPathLen - 1) }

Queries == {<<>>, <<"k">>, <<"k", "&", "l">>}

WithQuery(p, q) == IF q = <<>> THEN p ELSE p \o <<"?">> \o q

PrepareTargets ==
    { <<"http://", "b">> \o WithQuery(p, q) : p \in Paths, q \in Queries } \cup {BadURL}

PrepareConfigs ==
    { c \in [targetURL : PrepareTargets, requestDelay : {2}, bodyMethodsOnly : {FALSE},
             rejectWith : {<<>>}, rejectExact : {TRUE}, rejectInsensitive : {TRUE}] : TRUE }

\* request lines: a path (origin form), or a URL with an empty path
InboundURIs ==
    { IF p = <<>> THEN <<"http://", "proxy">> \o WithQuery(p, q) ELSE WithQuery(p, q) :
      p \in Paths, q \in Queries }

\* headers with at most MaxHeaders names present, each with two values
HeaderSets ==
    { [n \in HeaderNames |-> IF n \in S THEN Slice(<<"v", "w">>) ELSE NilSlice] :
      S \in { T \in SUBSET HeaderNames : Cardinality(T) <= MaxHeaders } }

PrepareRequests ==
    { NewRequest("POST", u, [EmptyHeader EXCEPT !["Content-Type"] = Slice(<<JSON>>)],
                 BytesBody(QuotedS)) : u \in InboundURIs }
    \cup { NewRequest("POST", <<"/", "d">>, hd, BytesBody(QuotedS)) : hd \in HeaderSets }

PrepareCall ==
    /\ tOut = NotCalled
    /\ \E r \in PrepareRequests :
          /\ tIn' = r
          /\ tOut' = prepareRequest(cfg.targetURL, r)
    /\ UNCHANGED <<cfg, serverVars, vBody, vErr>>

ErrorCodes == {405, 415, 400, 401, 500, 502}

MsgChars == {"a", "\"", "\\", "<"}

WriteErrorCall ==
    /\ tOut = NotCalled
    /\ \E code \in ErrorCodes, msg \in SeqsUpTo(MsgChars, MaxMsgLen) :
          /\ tIn' = [code |-> code, msg |-> msg]
          /\ tOut' = writeError(NoResponse, code, msg)
    /\ UNCHANGED <<cfg, serverVars, vBody, vErr>>

-----------------------------------------------------------------------------
(* the duplicate comparison on two requests: copyHeader and cmp.Equal *)

\* the names copyHeader's switch has a case for, the hyphenated name of the
\* last of them, and a header it has no case for
ComparedNames ==
    {"Host", "Accept", "User-Agent", "Connection", "Content-Type", "Content-Length",
     "Accept-Encoding", "AcceptEncoding", "Authorization"}

\* value lists of a header: one value, or two in either order
ValueLists == {Slice(<<"v">>), Slice(<<"v", "w">>), Slice(<<"w", "v">>)}

\* headers with at most MaxHeaders of these names present
HeadersOver(S) ==
    { [n \in HeaderNames |-> IF n \in S THEN f[n] ELSE NilSlice] : f \in [S -> ValueLists] }

\* the first request's header, and a second one that differs from it in at
\* most one header: in its value list, or in being there at all
CompareCall ==
    /\ tOut = NotCalled
    /\ \E S \in { T \in SUBSET ComparedNames : Cardinality(T) <= MaxHeaders } :
       \E hd \in HeadersOver(S), n \in ComparedNames, v \in ValueLists \cup {NilSlice} :
          LET a == NewRequest("POST", <<"/", "d">>, hd, BytesBody(QuotedS))
              b == NewRequest("POST", <<"/", "d">>, [hd EXCEPT ![n] = v], BytesBody(QuotedS))
          IN  /\ tIn' = [a |-> a, b |-> b]
              /\ tOut' = [equal |-> cmpEqual(Snapshot(cfg, a, QuotedS),
                                             Snapshot(cfg, b, QuotedS))]
    /\ UNCHANGED <<cfg, serverVars, vBody, vErr>>

-----------------------------------------------------------------------------
(* specifications *)

InitServer ==
    /\ priorRequest = EmptyRequestCopy
    /\ pc = [h \in Handlers |-> "idle"]
    /\ req = [h \in Handlers |-> NoRequest]
    /\ inbound = [h \in Handlers |-> NoRequest]
    /\ cb = [h \in Handlers |-> <<>>]
    /\ pr = [h \in Handlers |-> EmptyRequestCopy]
    /\ cr = [h \in Handlers |-> EmptyRequestCopy]
    /\ resp = [h \in Handlers |-> NoResponse]
    /\ out = [h \in Handlers |-> <<>>]
    /\ slept = [h \in Handlers |-> <<>>]
    /\ stages = [h \in Handlers |-> <<>>]
    /\ prevChecked = [h \in Handlers |-> NoneChecked]
    /\ lastChecked = NoneChecked
    /\ nreq = 0
    /\ beside = [h \in Handlers |-> {}]
    /\ reqID = [h \in Handlers |-> 0]
    /\ uuids = 0
    /\ upstream = [h \in Handlers |-> NoResult]
    /\ vBody = <<>>
    /\ vErr = NotRun
    /\ tIn = NotCalled
    /\ tOut = NotCalled

Step(h) ==
    \/ Admission(h) \/ ContentType(h) \/ BodyCapture(h) \/ ContentFilter(h)
    \/ ReadPriorA(h) \/ ReadPriorB(h) \/ Compare(h) \/ Sleep(h)
    \/ WritePriorA(h) \/ WritePriorB(h) \/ Prepare(h)
    \/ ForwardFails(h) \/ ForwardResponds(h) \/ Release(h)

\* the server under concurrent requests
Init == cfg \in ConcConfigs /\ InitServer
Next == \E h \in Handlers : Arrive(h) \/ Step(h)
Spec == Init /\ [][Next]_vars

\* the server with one request in flight at a time
InitSeq == cfg \in Configs /\ InitServer
NextSeq == \E h \in Handlers : ArriveSeq(h) \/ Step(h)
SpecSeq == InitSeq /\ [][NextSeq]_vars

\* validateRequestBody alone
InitFilter == cfg \in FilterConfigs /\ InitServer
NextFilter == Validate
SpecFilter == InitFilter /\ [][NextFilter]_vars

\* prepareRequest alone
InitPrepare == cfg \in PrepareConfigs /\ InitServer
NextPrepare == PrepareCall
SpecPrepare == InitPrepare /\ [][NextPrepare]_vars

\* writeError alone
InitWriteError == cfg \in ConcConfigs /\ InitServer
NextWriteError == WriteErrorCall
SpecWriteError == InitWriteError /\ [][NextWriteError]_vars

\* the server with no forbidden phrase configured, one request at a time
InitNoPhrase == cfg \in NoPhraseConfigs /\ InitServer
NextNoPhrase == \E h \in Handlers : ArriveNoPhrase(h) \/ Step(h)
SpecNoPhrase == InitNoPhrase /\ [][NextNoPhrase]_vars

\* the duplicate comparison alone
InitCompare == cfg \in ConcConfigs /\ InitServer
NextCompare == CompareCall
SpecCompare == InitCompare /\ [][NextCompare]_vars

-----------------------------------------------------------------------------
(* vocabulary of the properties *)

\* stage st of ServeHTTP has run for the request handler h holds
HasRun(h, st) == \E i \in 1..Len(stages[h]) : stages[h][i] = st

\* the proxy itself answered h's request with the error status code
ProxyError(h, code) == resp[h].kind = "error" /\ resp[h].status = code

\* the request passes method admission under the configuration
PassesAdmission(h) ==
    ~cfg.bodyMethodsOnly \/ inbound[h].Method \in {"POST", "PUT", "PATCH"}

\* the request's Content-Type header is exactly application/json
HasJSONContentType(h) == inbound[h].Header["Content-Type"] = Slice(<<JSON>>)

\* h's request was or is being delayed by the duplicate check
Delayed(h) == pc[h] = "sleep" \/ slept[h] # <<>>

\* c occurs in b as a substring (stated on its own, not by strings.Contains)
IsSubstring(c, b) ==
    \E i \in 0..Len(b) : \E j \in i..Len(b) : SubSeq(b, i + 1, j) = c

\* the four delimited forms of phrase P
DelimitedForms(P) ==
    { <<" ">> \o P \o <<" ">>, <<"\"">> \o P \o <<"\"">>,
      <<" ">> \o P \o <<"\"">>, <<"\"">> \o P \o <<" ">> }

\* validateRequestBody has been called in the unit harness
Validated == vErr # NotRun

\* lower-cased under the case-insensitive policy, unchanged otherwise
Fold(t) == IF cfg.rejectInsensitive THEN ToLower(t) ELSE t

\* the texts that differ from P in letter case only
CaseVariantsOf(P) ==
    { q \in SeqsUpTo(Chars, Len(P)) : Len(q) = Len(P) /\ q # P /\ ToLower(q) = ToLower(P) }

\* the bodies that differ from b only in the letter case of one occurrence of P
CaseVariants(b, P) ==
    { SubSeq(b, 1, i - 1) \o q \o SubSeq(b, i + Len(P), Len(b)) :
        i \in { k \in 1..(Len(b) - Len(P) + 1) : SubSeq(b, k, k + Len(P) - 1) = P },
        q \in CaseVariantsOf(P) }

-----------------------------------------------------------------------------
(* C1 *)

\* C1: once method admission has run, the request is answered 405 by the proxy
\* if and only if bodyMethodsOnly is true and the method is not POST, PUT or
\* PATCH (so the three pass with the flag on, and nothing gets 405 with it off).
C1_Admission405Iff ==
    \A h \in Handlers :
        HasRun(h, "admission") =>
            (ProxyError(h, 405) <=>
                (cfg.bodyMethodsOnly /\ inbound[h].Method \notin {"POST", "PUT", "PATCH"}))

C1_Witness ==
    \E h \in Handlers :
        /\ ProxyError(h, 405) /\ inbound[h].Method = "GET" /\ cfg.bodyMethodsOnly
        /\ pc[h] = "done"

-----------------------------------------------------------------------------
(* C2 *)

\* C2 as stated: every finished request whose Content-Type is not exactly
\* application/json (or is absent) has status 415, whatever the method, the
\* body and the configuration.
C2_Always415 ==
    \A h \in Handlers :
        (pc[h] = "done" /\ ~HasJSONContentType(h)) => ProxyError(h, 415)

\* C2 amended: every finished request that passes method admission and whose
\* Content-Type is not exactly application/json (or is absent) has status 415,
\* whatever its body and the rest of the configuration.
C2_415AfterAdmission ==
    \A h \in Handlers :
        (pc[h] = "done" /\ PassesAdmission(h) /\ ~HasJSONContentType(h))
            => ProxyError(h, 415)

C2_Witness ==
    \E h \in Handlers :
        /\ pc[h] = "done" /\ ProxyError(h, 415)
        /\ inbound[h].Header["Content-Type"] = NilSlice
        /\ inbound[h].Body = FailingBody

-----------------------------------------------------------------------------
(* C3 *)

\* C3 as stated: in exact mode with a non-empty phrase P, the body is rejected
\* if and only if it contains one of the four delimited forms of P.
C3_ExactIffDelimited ==
    (Validated /\ cfg.rejectExact /\ cfg.rejectWith # <<>>) =>
        (vErr.isErr <=> \E f \in DelimitedForms(cfg.rejectWith) : IsSubstring(f, vBody))

\* C3 amended: in exact mode with a non-empty phrase P, the body is rejected if
\* and only if the body as compared (lower-cased when the filter is
\* case-insensitive) contains one of the four delimited forms of the phrase as
\* compared (lower-cased likewise).
C3_ExactIffDelimitedFolded ==
    (Validated /\ cfg.rejectExact /\ cfg.rejectWith # <<>>) =>
        (vErr.isErr <=>
            \E f \in DelimitedForms(Fold(cfg.rejectWith)) : IsSubstring(f, Fold(vBody)))

\* the phrase occurs, but only inside a longer token or without delimiters
C3_Witness ==
    /\ Validated /\ cfg.rejectExact /\ cfg.rejectWith # <<>>
    /\ IsSubstring(cfg.rejectWith, vBody)
    /\ ~vErr.isErr

-----------------------------------------------------------------------------
(* C4 *)

\* C4 as stated: in contains mode with a non-empty phrase P, the body is
\* rejected if and only if P occurs in it as a substring; a body rejected in
\* exact mode is rejected in contains mode too.
C4_ContainsIffSubstring ==
    (Validated /\ ~cfg.rejectExact /\ cfg.rejectWith # <<>>) =>
        /\ vErr.isErr <=> IsSubstring(cfg.rejectWith, vBody)
        /\ validateRequestBody([cfg EXCEPT !.rejectExact = TRUE], vBody).isErr => vErr.isErr

\* C4 amended: in contains mode with a non-empty phrase P, the body is rejected
\* if and only if the phrase as compared (lower-cased when the filter is
\* case-insensitive) occurs as a substring of the body as compared; a body
\* rejected in exact mode is rejected in contains mode too, for the same phrase
\* and case setting.
C4_ContainsIffSubstringFolded ==
    (Validated /\ ~cfg.rejectExact /\ cfg.rejectWith # <<>>) =>
        /\ vErr.isErr <=> IsSubstring(Fold(cfg.rejectWith), Fold(vBody))
        /\ validateRequestBody([cfg EXCEPT !.rejectExact = TRUE], vBody).isErr => vErr.isErr

\* rejected in contains mode though exact mode lets the body through
C4_Witness ==
    /\ Validated /\ ~cfg.rejectExact /\ cfg.rejectWith # <<>>
    /\ vErr.isErr
    /\ ~validateRequestBody([cfg EXCEPT !.rejectExact = TRUE], vBody).isErr

-----------------------------------------------------------------------------
(* C5 *)

\* the decision of a case-insensitive filter is the case-sensitive decision on
\* the lower-cased body and phrase
C5_InsensitiveIsLowered ==
    (Validated /\ cfg.rejectInsensitive) =>
        (vErr.isErr <=>
            validateRequestBody([cfg EXCEPT !.rejectInsensitive = FALSE,
                                            !.rejectWith = ToLower(cfg.rejectWith)],
                                ToLower(vBody)).isErr)

\* C5 as stated: the case-insensitive decision is the case-sensitive one on the
\* lower-cased body and phrase; and under a case-sensitive filter every body
\* that differs from a rejected body only in the letter case of the phrase
\* occurrence is allowed.
C5_CasePolicy ==
    /\ C5_InsensitiveIsLowered
    /\ (Validated /\ ~cfg.rejectInsensitive /\ vErr.isErr) =>
          \A b2 \in CaseVariants(vBody, cfg.rejectWith) :
              ~validateRequestBody(cfg, b2).isErr

\* C5 amended: the case-insensitive decision is the case-sensitive one on the
\* lower-cased body and phrase; and under a case-sensitive filter a body that
\* differs from a rejected body only in the letter case of the phrase
\* occurrence is allowed unless the phrase, in its configured case, still
\* occurs in it in a form the mode looks for.
C5_CasePolicyAmended ==
    /\ C5_InsensitiveIsLowered
    /\ (Validated /\ ~cfg.rejectInsensitive /\ vErr.isErr) =>
          \A b2 \in CaseVariants(vBody, cfg.rejectWith) :
              LET forms == IF cfg.rejectExact THEN DelimitedForms(cfg.rejectWith)
                                              ELSE {cfg.rejectWith}
              IN  (~\E f \in forms : IsSubstring(f, b2))
                      => ~validateRequestBody(cfg, b2).isErr

\* a rejected body with a variant, differing in the case of the phrase, that
\* the case-sensitive filter allows and the case-insensitive one rejects
C5_Witness ==
    /\ Validated /\ ~cfg.rejectInsensitive /\ vErr.isErr
    /\ \E b2 \in CaseVariants(vBody, cfg.rejectWith) :
          /\ ~validateRequestBody(cfg, b2).isErr
          /\ validateRequestBody([cfg EXCEPT !.rejectInsensitive = TRUE], b2).isErr

-----------------------------------------------------------------------------
(* C7 *)

\* C7: whenever validateRequestBody rejects, the error text is "rejected
\* because 'P' found within request body" with P the phrase as configured, in
\* every mode.
C7_ErrorNamesConfiguredPhrase ==
    (Validated /\ vErr.isErr) =>
        vErr = NewError("rejected because '%s' found within request body", cfg.rejectWith)

-----------------------------------------------------------------------------
(* C6 *)

\* C6: a request the proxy answered with 405, 415, 400, 401 or 500 has had
\* nothing dispatched to the upstream target; and a request whose body the
\* content filter rejects is answered 401 and nothing is dispatched for it.
C6_NoDispatchAfterEarlyError ==
    \A h \in Handlers :
        /\ (resp[h].kind = "error" /\ resp[h].status \in {405, 415, 400, 401, 500})
              => out[h] = <<>>
        /\ ( /\ HasRun(h, "filter")
             /\ cfg.rejectWith # <<>>
             /\ validateRequestBody(cfg, cb[h]).isErr )
              => (ProxyError(h, 401) /\ out[h] = <<>>)

C6_Witness ==
    \E h \in Handlers :
        /\ pc[h] = "done" /\ ProxyError(h, 401) /\ out[h] = <<>>
        /\ inbound[h].Body = BytesBody(QuotedA)

-----------------------------------------------------------------------------
(* C8 *)

\* with one request in flight at a time: a request that reached the comparison
\* is delayed, by the configured delay, if and only if its snapshot equals the
\* snapshot of the request that reached the comparison just before it
C8_DelayedIffConsecutiveDuplicate ==
    \A h \in Handlers :
        HasRun(h, "compare") =>
            /\ Delayed(h) <=> (prevChecked[h].some /\ prevChecked[h].snap = cr[h])
            /\ slept[h] \in {<<>>, <<cfg.requestDelay>>}

-----------------------------------------------------------------------------
(* C9 *)

\* C9: when a request completes the replacement that ends its duplicate
\* check, the stored snapshot is that request's snapshot, whether or not the
\* request was a duplicate.
C9_ReplaceStoresSnapshot ==
    [][\A h \in Handlers :
          (pc[h] = "writeB" /\ pc'[h] = "prepare") => priorRequest' = cr[h]]_vars

\* with one request in flight at a time the stored snapshot is that of the
\* latest request that passed the check, whatever the outcome of its later
\* stages, until the next request passes the check
C9_StoredIsLastChecked ==
    /\ \A h \in Handlers : HasRun(h, "writeB") => priorRequest = cr[h]
    /\ ((\A h \in Handlers : pc[h] = "idle") /\ lastChecked.some)
          => priorRequest = lastChecked.snap

-----------------------------------------------------------------------------
(* C10 *)

\* handler h has read the stored snapshot and has not yet replaced it
InWindow(h) == pc[h] \in {"compare", "sleep", "writeA", "writeB"}

\* C10: the read-compare-replace of the stored snapshot is one critical
\* section: never have two handlers both read it while neither has replaced it.
C10_AtomicReadCompareReplace ==
    \A g, h \in Handlers : (g # h) => ~(InWindow(g) /\ InWindow(h))

-----------------------------------------------------------------------------
(* C11 *)

\* the step of ServeHTTP handler h takes next
StageStep(h) ==
    \/ Admission(h) \/ ContentType(h) \/ BodyCapture(h) \/ ContentFilter(h)
    \/ ReadPriorA(h) \/ ReadPriorB(h) \/ Compare(h) \/ Sleep(h)
    \/ WritePriorA(h) \/ WritePriorB(h) \/ Prepare(h)
    \/ ForwardFails(h) \/ ForwardResponds(h)

\* h's request is in flight
InFlight(h) == pc[h] \notin {"idle", "done"}

\* C11: while a handler is asleep in the duplicate delay, every other request
\* in flight can take its next step, whichever stage it is at (its own
\* duplicate check and the forwarding included): nothing makes it wait for the
\* sleeper, so it runs on to its terminal state.
C11_SleeperBlocksNoOne ==
    \A g, h \in Handlers :
        (g # h /\ pc[g] = "sleep" /\ InFlight(h)) => ENABLED StageStep(h)

\* a request that arrived, did its own duplicate check, was forwarded and
\* answered, all while the other handler stayed asleep
C11_Witness ==
    \E g, h \in Handlers :
        /\ g # h /\ pc[g] = "sleep" /\ g \in beside[h]
        /\ pc[h] = "done" /\ HasRun(h, "compare") /\ Len(out[h]) = 1
        /\ resp[h].kind = "relay"

-----------------------------------------------------------------------------
(* C12 *)

\* client.Do returned a response for h's request
UpstreamResponded(h) == upstream[h].kind = "resp"

\* io.Copy returned an error before the end of the upstream's body
CopyFailed(h) == UpstreamResponded(h) /\ upstream[h].copied < Len(upstream[h].body)

-----------------------------------------------------------------------------
(* C13 *)

\* h's response relays an upstream response
Relays(h) == resp[h].kind = "relay"

\* C13: every response that relays an upstream response carries exactly one
\* X-Proxy-Request-ID value and it is not empty (identifier 0 stands for the
\* empty string), the identifiers of two such responses differ, and no error
\* response written by the proxy carries the header.
C13_RequestIDs ==
    /\ \A h \in Handlers :
          Relays(h) => /\ ~resp[h].header.XProxyRequestID.nil
                       /\ Len(resp[h].header.XProxyRequestID.v) = 1
                       /\ resp[h].header.XProxyRequestID.v[1] # 0
    /\ \A g, h \in Handlers :
          (g # h /\ Relays(g) /\ Relays(h))
              => resp[g].header.XProxyRequestID # resp[h].header.XProxyRequestID
    /\ \A h \in Handlers :
          resp[h].kind = "error" => resp[h].header.XProxyRequestID = NilSlice

\* two relayed responses side by side, the second and third identifiers generated
C13_Witness ==
    \E g, h \in Handlers :
        /\ g # h /\ Relays(g) /\ Relays(h) /\ nreq = 3
        /\ resp[g].header.XProxyRequestID.v[1] > 1
        /\ resp[h].header.XProxyRequestID.v[1] > 1

-----------------------------------------------------------------------------
(* reading an error body back *)

RECURSIVE jsonValid(_)
\* s is the inside of a JSON string: no quote without a backslash before it
jsonValid(s) ==
    IF s = <<>> THEN TRUE
    ELSE IF s[1] = "\\"
         THEN /\ Len(s) >= 2
              /\ IF s[2] = "u" THEN Len(s) >= 6 /\ jsonValid(SubSeq(s, 7, Len(s)))
                               ELSE jsonValid(SubSeq(s, 3, Len(s)))
    ELSE s[1] # "\"" /\ jsonValid(Tail(s))

RECURSIVE jsonUnquote(_)
\* the text a JSON string stands for
jsonUnquote(s) ==
    IF s = <<>> THEN <<>>
    ELSE IF s[1] = "\\" /\ Len(s) >= 2
         THEN IF s[2] = "u"
              THEN (IF Len(s) >= 6 /\ SubSeq(s, 3, 6) = <<"0", "0", "3", "c">>
                    THEN <<"<">> ELSE <<"?">>) \o jsonUnquote(SubSeq(s, 7, Len(s)))
              ELSE <<s[2]>> \o jsonUnquote(SubSeq(s, 3, Len(s)))
    ELSE <<s[1]>> \o jsonUnquote(Tail(s))

\* the body read as a JSON object with exactly the string fields code and msg
ErrorObject(body) ==
    LET i     == IndexOf(body, "\",\"msg\":\"")
        shape == /\ Len(body) >= 3
                 /\ body[1] = "{\"code\":\""
                 /\ body[Len(body)] = "\"}"
                 /\ i > 1
        c     == IF shape THEN SubSeq(body, 2, i - 1) ELSE <<>>
        m     == IF shape THEN SubSeq(body, i + 1, Len(body) - 1) ELSE <<>>
    IN  [ok   |-> shape /\ jsonValid(c) /\ jsonValid(m),
         code |-> jsonUnquote(c),
         msg  |-> jsonUnquote(m)]

RECURSIVE Atoi(_)
\* the number a sequence of decimal digits stands for
Atoi(s) ==
    IF s = <<>> THEN 0
    ELSE 10 * Atoi(SubSeq(s, 1, Len(s) - 1)) + (IndexOf(Digits, s[Len(s)]) - 1)

\* s is a decimal numeral without a leading zero
IsNumeral(s) ==
    /\ s # <<>>
    /\ \A i \in 1..Len(s) : IndexOf(Digits, s[i]) > 0
    /\ (Len(s) > 1 => s[1] # "0")

-----------------------------------------------------------------------------
(* C14 *)

\* client.Do returned an error for h's request: no upstream response
TransportFailed(h) == upstream[h].kind = "err"

\* C14: when the dispatch fails at transport level the client receives 502
\* with the error body whose msg is the fixed text "bad gateway", not the
\* transport error's text, and nothing of an upstream response is relayed.
C14_BadGateway ==
    \A h \in Handlers :
        TransportFailed(h) =>
            /\ ProxyError(h, 502)
            /\ ErrorObject(resp[h].body).ok
            /\ ErrorObject(resp[h].body).msg = <<"bad gateway">>
            /\ ErrorObject(resp[h].body).msg # upstream[h].err
            /\ resp[h].header.XProxyRequestID = NilSlice

C14_Witness ==
    \E h \in Handlers :
        /\ pc[h] = "done" /\ TransportFailed(h) /\ Len(out[h]) = 1
        /\ upstream[h].err = <<"connection refused">>
        /\ resp[h].status = 502

-----------------------------------------------------------------------------
(* C15 *)

\* writeError has been called on its own
WriteErrorCalled == tOut # NotCalled /\ tIn # NotCalled /\ "code" \in DOMAIN tIn

-----------------------------------------------------------------------------
(* the texts of the URLs prepareRequest is given *)

\* the path of a URL as written: what stands between the host and the first ?
PathText(t) ==
    LET rest == IF Len(t) >= 2 /\ t[1] = "http://" THEN SubSeq(t, 3, Len(t)) ELSE t
        q    == IndexOf(rest, "?")
    IN  IF q = 0 THEN rest ELSE SubSeq(rest, 1, q - 1)

\* the query of a URL as written: what stands after the first ?
QueryText(t) ==
    LET q == IndexOf(t, "?")
    IN  IF q = 0 THEN <<>> ELSE SubSeq(t, q + 1, Len(t))

DropLastSlash(p) == IF p # <<>> /\ p[Len(p)] = "/" THEN SubSeq(p, 1, Len(p) - 1) ELSE p

DropFirstSlash(p) == IF p # <<>> /\ p[1] = "/" THEN Tail(p) ELSE p

\* base followed by inbound with exactly one slash between them
OneSlashJoin(base, in) == DropLastSlash(base) \o <<"/">> \o DropFirstSlash(in)

\* prepareRequest has been called on its own
PrepareCalled == tOut # NotCalled /\ "err" \in DOMAIN tOut

\* ... and has rewritten the request
Prepared == PrepareCalled /\ ~tOut.err.isErr

-----------------------------------------------------------------------------
(* C16 *)

\* C16: the forwarded path is the target's base path followed by the inbound
\* path with exactly one slash at the junction: one slash dropped when the
\* base ends in / and the inbound path starts with /, one inserted when
\* neither does, plain concatenation otherwise. This holds of the paths as
\* they are written in the URLs (an escaped slash %2F is not a slash), and of
\* the decoded paths when no slash is escaped.
C16_OneSlashAtJunction ==
    Prepared =>
        LET base == PathText(cfg.targetURL)
            in   == PathText(tIn.RequestURI)
        IN  /\ EscapedPath(tOut.req.URL) = OneSlashJoin(base, in)
            /\ (\A i \in 1..Len(base \o in) : (base \o in)[i] # "%2F")
                  => tOut.req.URL.Path = OneSlashJoin(unescape(base), unescape(in))

\* base /d/ and inbound /d: one of the two slashes is dropped
C16_Witness ==
    /\ Prepared
    /\ PathText(cfg.targetURL) = <<"/", "d", "/">>
    /\ PathText(tIn.RequestURI) = <<"/", "d">>
    /\ tOut.req.URL.Path = <<"/", "d", "/", "d">>

-----------------------------------------------------------------------------
(* C17 *)

\* C17: the forwarded query is the inbound query when the target has none,
\* the target's when the request has none, and else the target's, an &, and
\* the inbound one; the forwarded scheme and host are the target's (the
\* request's own Host is cleared so that the URL's host is used).
C17_QueryMerge ==
    Prepared =>
        LET tq == QueryText(cfg.targetURL)
            iq == QueryText(tIn.RequestURI)
        IN  /\ tOut.req.URL.RawQuery =
                  (IF tq = <<>> THEN iq
                   ELSE IF iq = <<>> THEN tq
                   ELSE tq \o <<"&">> \o iq)
            /\ tOut.req.URL.Scheme = "http"
            /\ tOut.req.URL.Host = cfg.targetURL[2]
            /\ tOut.req.Host = ""

\* both queries present, and a request line that names the proxy as its host
C17_Witness ==
    /\ Prepared
    /\ QueryText(cfg.targetURL) = <<"k">>
    /\ tIn.RequestURI = <<"http://", "proxy", "?", "k", "&", "l">>
    /\ tOut.req.URL.RawQuery = <<"k", "&", "k", "&", "l">>
    /\ tOut.req.URL.Host = "b"

-----------------------------------------------------------------------------
(* C18 *)

\* the headers the specification lists as stripped
StrippedHeaders ==
    {"Te", "Trailer", "Upgrade", "Keep-Alive", "Connection", "Accept-Encoding",
     "Transfer-Encoding", "Proxy-Connection", "Proxy-Authenticate", "Proxy-Authorization"}

\* C18: the request prepareRequest returns, which is the one handed to
\* client.Do, carries none of the ten listed headers whatever headers the
\* inbound request had, and every other inbound header with its values
\* unchanged.
C18_HopHeadersStripped ==
    Prepared =>
        \A n \in HeaderNames :
            IF n \in StrippedHeaders
            THEN tOut.req.Header[n] = NilSlice
            ELSE tOut.req.Header[n] = tIn.Header[n]

\* a listed header is dropped, another header is kept with both its values
C18_Witness ==
    /\ Prepared
    /\ tIn.Header["Accept-Encoding"] = Slice(<<"v", "w">>)
    /\ tIn.Header["Authorization"] = Slice(<<"v", "w">>)
    /\ tOut.req.Header["Accept-Encoding"] = NilSlice
    /\ tOut.req.Header["Authorization"] = Slice(<<"v", "w">>)

-----------------------------------------------------------------------------
(* C19 *)

\* the stages in the order of the pipeline; the duplicate check is the read of
\* the stored snapshot, the comparison, the delay and the replacement
StageOrder ==
    <<"admission", "ctype", "body", "filter", "readA", "readB", "compare", "sleep",
      "writeA", "writeB", "prepare", "forward">>

\* the stages h's request went through are in pipeline order, none twice
InPipelineOrder(h) ==
    \A i, j \in 1..Len(stages[h]) :
        i < j => IndexOf(StageOrder, stages[h][i]) < IndexOf(StageOrder, stages[h][j])

\* the content filter's verdict on body b, from the configuration
FilterRejects(b) ==
    /\ cfg.rejectWith # <<>>
    /\ \E f \in (IF cfg.rejectExact THEN DelimitedForms(Fold(cfg.rejectWith))
                                     ELSE {Fold(cfg.rejectWith)}) :
          IsSubstring(f, Fold(b))

\* the status of the first stage, in pipeline order, that h's request fails;
\* 0 when it fails none
FirstFailure(h) ==
    IF ~PassesAdmission(h) THEN 405
    ELSE IF ~HasJSONContentType(h) THEN 415
    ELSE IF inbound[h].Body = FailingBody THEN 400
    ELSE IF FilterRejects(inbound[h].Body.bytes) THEN 401
    ELSE IF urlParseFails(cfg.targetURL) THEN 500
    ELSE IF upstream[h].kind = "err" THEN 502
    ELSE 0

\* C19: the stages of every request run in the fixed pipeline order with no
\* step back; a finished request that fails some stage has the status of the
\* first stage it fails (405, 415, 400, 401, 500, 502 in this order) and one
\* that fails none has the relayed response; a request rejected by a stage
\* before the duplicate check is never delayed.
C19_PipelineOrder ==
    \A h \in Handlers :
        /\ InPipelineOrder(h)
        /\ pc[h] = "done" =>
              (IF FirstFailure(h) = 0 THEN Relays(h) ELSE ProxyError(h, FirstFailure(h)))
        /\ Delayed(h) => FirstFailure(h) \notin {405, 415, 400, 401}

\* a request failing admission, the content type gate and the body capture:
\* answered 405 by the first of them, after one stage
C19_Witness ==
    \E h \in Handlers :
        /\ pc[h] = "done" /\ ProxyError(h, 405)
        /\ ~HasJSONContentType(h) /\ inbound[h].Body = FailingBody
        /\ stages[h] = <<"admission">>

-----------------------------------------------------------------------------
(* C20 *)

\* C20: client.Do is called at most once for a request: once it has returned,
\* with an error (answered 502) or with a response of any status, ServeHTTP
\* has returned and one request has been dispatched, never a second one.
C20_SingleAttempt ==
    \A h \in Handlers :
        /\ Len(out[h]) <= 1
        /\ upstream[h].kind # "none" => (pc[h] = "done" /\ Len(out[h]) = 1)
        /\ (pc[h] = "done" /\ HasRun(h, "forward")) => upstream[h].kind # "none"

\* a transport failure answered 502 after the one dispatch
C20_Witness ==
    \E h \in Handlers :
        /\ pc[h] = "done" /\ ProxyError(h, 502)
        /\ out[h] = <<req[h]>>

-----------------------------------------------------------------------------
(* C21 *)

\* C21: with an empty forbidden phrase the content filter is disabled: no
\* request is answered 401, whatever its body and whatever the exact/contains
\* and case settings; every request that reaches the filter goes on to the
\* duplicate check.
C21_EmptyPhraseDisablesFilter ==
    cfg.rejectWith = <<>> =>
        \A h \in Handlers :
            /\ resp[h].status # 401
            /\ HasRun(h, "filter") => HasRun(h, "readA") \/ pc[h] = "readA"

\* the body "" under the exact setting, and a request without body under
\* contains: both past the filter and relayed
C21_Witness ==
    \E h \in Handlers :
        /\ cfg.rejectWith = <<>> /\ pc[h] = "done" /\ Relays(h) /\ HasRun(h, "filter")
        /\ \/ cfg.rejectExact /\ inbound[h].Body = BytesBody(<<"\"", "\"">>)
           \/ ~cfg.rejectExact /\ inbound[h].Body = NoBody

-----------------------------------------------------------------------------
(* C22 *)

\* C22: a request gets one response: the writer is handed at most one status
\* line, and exactly one once ServeHTTP has returned; what was sent is either
\* an error body of writeError, with no upstream response behind it, or the
\* upstream's status with the bytes of its body copied so far, never the one
\* followed by the other; when the copy of the body breaks off after the
\* status line, the response stays the relayed one and no error is written.
C22_OneResponse ==
    \A h \in Handlers :
        /\ resp[h].writes <= 1
        /\ pc[h] = "done" => resp[h].writes = 1
        /\ resp[h].kind = "error" =>
              /\ ~UpstreamResponded(h)
              /\ ErrorObject(resp[h].body).ok
              /\ ErrorObject(resp[h].body).code = Itoa(resp[h].status)
        /\ resp[h].kind = "relay" =>
              /\ UpstreamResponded(h)
              /\ resp[h].status = upstream[h].status
              /\ resp[h].body = SubSeq(upstream[h].body, 1, upstream[h].copied)
        /\ CopyFailed(h) => (pc[h] = "done" /\ resp[h].kind = "relay")

\* the copy broke off after the first byte of the upstream's body
C22_Witness ==
    \E h \in Handlers :
        /\ pc[h] = "done" /\ CopyFailed(h)
        /\ upstream[h].body = QuotedS /\ upstream[h].copied = 1
        /\ resp[h].status = 405 /\ resp[h].body = <<"\"">> /\ resp[h].writes = 1

-----------------------------------------------------------------------------
(* C23 *)

\* the seven headers the specification lists for the comparison
AllowListed ==
    {"Host", "Accept", "User-Agent", "Connection", "Content-Type", "Content-Length",
     "Accept-Encoding"}

\* the comparison has been made on two requests
Compared == tOut # NotCalled /\ "equal" \in DOMAIN tOut

\* C23: two requests with equal method, request URI and body are judged
\* duplicates if and only if they agree, value list for value list in order,
\* on each of the seven allow-listed headers; a difference in Accept-Encoding
\* breaks the match and a difference in any other header does not.
C23_AllowListDecides ==
    Compared =>
        (tOut.equal <=> \A n \in AllowListed : tIn.a.Header[n] = tIn.b.Header[n])

\* what the comparison does decide on: the six headers before Accept-Encoding
\* and the header named AcceptEncoding, without the hyphen
C23_ComparedAsCoded ==
    Compared =>
        (tOut.equal <=>
            \A n \in (AllowListed \ {"Accept-Encoding"}) \cup {"AcceptEncoding"} :
                tIn.a.Header[n] = tIn.b.Header[n])

\* two requests that differ in Accept-Encoding alone, judged duplicates
C23_AcceptEncodingIgnored ==
    /\ Compared /\ tOut.equal
    /\ tIn.a.Header["Accept-Encoding"] # tIn.b.Header["Accept-Encoding"]

-----------------------------------------------------------------------------
(* C24 *)

\* the snapshot a record of a comparison stands for: the empty RequestCopy of
\* the construction when there was no comparison
SnapOf(c) == IF c.some THEN c.snap ELSE EmptyRequestCopy

\* the latest comparison made before h's own
CheckedBefore(h) == IF HasRun(h, "compare") THEN prevChecked[h] ELSE lastChecked

\* the proxy rejected h's request at a stage before the duplicate check
RejectedEarly(h) == resp[h].kind = "error" /\ resp[h].status \in {405, 415, 400, 401}

\* C24: (one request after another) a request rejected with 405, 415, 400 or
\* 401 never reaches the duplicate check and leaves the stored snapshot as it
\* was: until a request starts its own replacement, the stored snapshot is that
\* of the latest request that reached the duplicate check before it, however
\* many rejected requests came in between; so a request equal to that one is
\* compared against it and delayed.
C24_RejectedLeavesSnapshot ==
    \A h \in Handlers :
        /\ RejectedEarly(h) =>
              /\ ~HasRun(h, "readA")
              /\ priorRequest = SnapOf(lastChecked)
        /\ (pc[h] # "idle" /\ ~HasRun(h, "writeA")) =>
              priorRequest = SnapOf(CheckedBefore(h))
        /\ (HasRun(h, "compare") /\ SnapOf(prevChecked[h]) = cr[h]) => Delayed(h)

\* the second request, rejected by the content type gate, has been answered,
\* and the stored snapshot is still the first one's
C24_Witness ==
    \E h \in Handlers :
        /\ nreq = 2 /\ pc[h] = "done" /\ ProxyError(h, 415)
        /\ lastChecked.some /\ priorRequest = lastChecked.snap

-----------------------------------------------------------------------------
(* C25 *)

\* h makes its comparison in this step while g, in flight with an identical
\* request, has made its own, and the latest comparison before h's was of that
\* same snapshot: no different request made its comparison between the two
LaterOfTwo(g, h) ==
    /\ g # h
    /\ pc[h] = "compare" /\ pc'[h] # "compare"
    /\ InFlight(g) /\ HasRun(g, "compare")
    /\ cr[g] = cr[h]
    /\ lastChecked.some /\ lastChecked.snap = cr[h]

\* C25: of two identical requests handled concurrently, with no different
\* request making its duplicate check between theirs, the one that makes its
\* duplicate check later is delayed, in every interleaving.
C25_NoMissedDuplicate ==
    [][\A g, h \in Handlers : LaterOfTwo(g, h) => pc'[h] = "sleep"]_vars

-----------------------------------------------------------------------------
(* C27 *)

\* no request is in flight
Quiescent == \A h \in Handlers : ~InFlight(h)

\* C27: once all requests in flight have finished, the stored snapshot is the
\* snapshot of the request that made its comparison last (so no handler, a
\* delayed one included, has overwritten what a request that compared after it
\* stored).
C27_NoLostUpdate ==
    (Quiescent /\ lastChecked.some) => priorRequest = lastChecked.snap

\* a delayed request has finished after a different request that compared
\* later, and the stored snapshot is the delayed one's
C27_DelayedOverwrites ==
    \E g, h \in Handlers :
        /\ g # h /\ Quiescent
        /\ pc[g] = "done" /\ pc[h] = "done"
        /\ slept[h] # <<>>
        /\ prevChecked[g] = [some |-> TRUE, snap |-> cr[h]]
        /\ lastChecked.snap = cr[g] /\ cr[g] # cr[h]
        /\ priorRequest = cr[h]

-----------------------------------------------------------------------------
(* C28 *)

\* h's request reached the duplicate check and no request had before it
FirstToCheck(h) == HasRun(h, "compare") /\ ~prevChecked[h].some

\* C28: with the server constructed with the empty RequestCopy as its prior
\* request, the first request that reaches the duplicate check is not delayed:
\* its snapshot differs from the empty one and time.Sleep is not called,
\* whatever the request and the configured delay.
C28_FirstNeverDelayed ==
    \A h \in Handlers :
        FirstToCheck(h) =>
            /\ cr[h] # EmptyRequestCopy
            /\ pc[h] # "sleep"
            /\ slept[h] = <<>>

\* a first request without body, relayed without delay
C28_Witness ==
    \E h \in Handlers :
        /\ FirstToCheck(h) /\ pc[h] = "done" /\ Relays(h)
        /\ inbound[h].Body = NoBody
        /\ cfg.requestDelay = 2 /\ slept[h] = <<>>

-----------------------------------------------------------------------------
(* C29 *)

\* the bytes of the body h's request arrived with
InboundBytes(h) == inbound[h].Body.bytes

\* C29: reading the body for the filter and the comparison alters nothing of
\* what is forwarded: the bytes captured for the content filter, the bytes in
\* the request's snapshot, and the body of the request handed to client.Do are
\* all the bytes of the inbound body.
C29_BodyPreserved ==
    \A h \in Handlers :
        /\ HasRun(h, "filter") => cb[h] = InboundBytes(h)
        /\ HasRun(h, "readB") => cr[h].Body = Slice(InboundBytes(h))
        /\ out[h] # <<>> =>
              /\ out[h][1].Body = inbound[h].Body
              /\ out[h][1].Body.bytes = cb[h]
              /\ Slice(out[h][1].Body.bytes) = cr[h].Body

\* the body "s", inspected by a filter that looks for a phrase, then forwarded
C29_Witness ==
    \E h \in Handlers :
        /\ pc[h] = "done" /\ Relays(h) /\ cfg.rejectWith # <<>>
        /\ inbound[h].Body = BytesBody(QuotedS)
        /\ out[h][1].Body = BytesBody(QuotedS)
        /\ cr[h].Body = Slice(QuotedS)

-----------------------------------------------------------------------------
(* C26 *)

\* the server under concurrent requests, with a forbidden phrase configured,
\* every handler goroutine being scheduled again and again: time.Sleep returns
\* after the configured delay and client.Do returns with a response or with an
\* error
InitFair == cfg \in {c \in ConcConfigs : c.rejectWith # <<>>} /\ InitServer
SpecFair == InitFair /\ [][Next]_vars /\ \A h \in Handlers : WF_vars(StageStep(h))

====
